---- MODULE Spec2Model ----
(***************************************************************************)
(* Model of the MCP tool-dispatch layer of FinanceAI.                      *)
(*                                                                         *)
(*   protocol client   backend/mcp/protocol/client.py  (one server, a      *)
(*                     pending map of futures keyed by message id)         *)
(*   multi-server      backend/mcp/client.py  (several server URLs, a      *)
(*   client            tenacity retry around invoke_tool)                  *)
(*                                                                         *)
(* Every action is one run of a coroutine between two suspension points of *)
(* the asyncio event loop; the server and the network are the environment. *)
(***************************************************************************)
EXTENDS Integers, Sequences, FiniteSets, TLC

\* ------------------------------------------------------------------ bounds
MaxCalls == 3        \* requests the protocol client issues in one run
MaxInbox == 1        \* frames buffered on the protocol client's socket
MaxSockets == 2      \* transports the multi-server client opens in one run
MaxDisconnects == 2  \* disconnect() calls on the multi-server client
MaxLiveCalls == 1    \* protocol-client requests in the runs checked for termination
MaxLiveSockets == 1  \* multi-server transports in the runs checked for termination
MaxConns == 2        \* connections the server accepts in one run
MaxMessages == 2     \* payloads clients write to the server in one run
MaxRegistrations == 2  \* register_tool calls in one run

\* ------------------------------------------------------- protocol client
Ids == 1..MaxCalls                 \* uuid4 message ids: fresh per request
ServerTools == {"get_quote"}       \* tool ids the server's catalog lists
ToolIds == {"get_quote", "does_not_exist"}

NoMsg == [type |-> "none", id |-> 0, valid |-> FALSE]

\* frames the server can put on the socket; valid = passes pydantic
\* validation of ToolResponse / ToolListResponse
Frames ==
  [type : {"tool_response", "tool_list_response"}, id : Ids, valid : {TRUE}]
  \cup [type : {"tool_response", "error", "not_json"}, id : {0}, valid : {FALSE}]

VARIABLES
  websocket,          \* "None" | "open" | "closedOK" | "closedErr"
  connected,          \* MCPClient.connected
  response_handlers,  \* keys of MCPClient._response_handlers
  future,             \* per message id: "none" | "pending" | "done" | "cancelled"
  future_result,      \* per message id: the frame given to set_result
  ptools,             \* keys of MCPClient.tools
  inbox,              \* frames received on the socket, not yet iterated
  handle_messages,    \* the _handle_messages task: "none" | "running" | "ended" | "crashed"
  kind,               \* per call: "none" | "list" | "tool"
  cpc,                \* per call: "idle" | "waiting" | "returned" | "raised"
  cerr,               \* per call: the error it raised
  sent,               \* message ids written to the socket
  nextId,             \* next fresh call / message id
  last,               \* what the last step of the message loop did
  processed           \* message ids the protocol server has processed

pvars == <<websocket, connected, response_handlers, future, future_result,
           ptools, inbox, handle_messages, kind, cpc, cerr, sent, nextId,
           last, processed>>

\* ---------------------------------------------------- multi-server client
Urls == {"ws://a", "ws://b"}       \* well-formed server URLs
\* other entries a configured list can hold: a wrong scheme, a string
\* urlparse rejects, a value that is no string
BadScheme == "http://c"
Malformed == "ws://["
NotAString == "<int 42>"

ServerUrlLists ==
  { <<>>, <<"ws://a">>, <<"ws://a", "ws://b">>, <<BadScheme, "ws://a">>,
    <<NotAString, "ws://a">>, <<Malformed, "ws://a">>, <<"ws://a", Malformed>> }

H == 1..MaxSockets                 \* transport handles
MTools == {"get_quote", "get_news"}
Invocations == {"i1"}              \* invoke_tool calls in flight

\* the tool a server advertises for itself in a tool_update
ToolOf(u) == IF u = "ws://a" THEN "get_quote" ELSE "get_news"

MaxAttempts == 5                   \* _reconnect: max_attempts
StopAfterAttempt == 3              \* @retry(stop=stop_after_attempt(3))

MFrames ==
  [type : {"tool_update", "non_dict", "not_json"},
   k : {"none"}, a : {0}, status : {"none"}]
  \cup [type : {"response"}, k : Invocations, a : 1..StopAfterAttempt,
        status : {"success", "error"}]

NoInv == [pc |-> "idle", tool |-> "none", attempt |-> 0, sock |-> 0,
          expired |-> FALSE, ratt |-> 0, wait |-> 0, last |-> "none",
          cycles |-> 0]   \* cycles: _reconnect calls made by this invocation

VARIABLES
  server_urls,            \* MCPClient.server_urls
  websocket_connections,  \* url -> transport handle, 0 when absent
  tools,                  \* tool name -> owning server url, "none" when absent
  sock,                   \* per handle: "unused" | "open" | "closedOK" | "closedErr"
  surl,                   \* per handle: the url it was opened for
  subscribe_msg,          \* per handle, its subscribe message: "none" | "sent" |
                          \*   "answered"
  listen,                 \* per handle, its _listen task: "none" | "running" |
                          \*   "reconnecting" | "reconnected" | "failed" |
                          \*   "ended" | "crashed"
  ratt,                   \* per handle: attempt index of the task's _reconnect
  wait,                   \* per handle: seconds of the task's last backoff sleep
  minbox,                 \* per handle: frames received, not yet read
  conn,                   \* the connect() call
  disc,                   \* the disconnect() calls
  inv,                    \* per invocation: the invoke_tool call and its retry
  msent,                  \* tool_invocation requests written to a socket
  handled                 \* those of them the server has handled

mvars == <<server_urls, websocket_connections, tools, sock, surl, subscribe_msg, listen,
           ratt, wait, minbox, conn, disc, inv, msent, handled>>

\* ------------------------------------------------------------ the server
\* backend/mcp/server.py: the registry self.tools, the map self.clients and
\* one handle_connection task per accepted connection
Conns == 1..MaxConns               \* accepted connections; client_id is the
                                   \* peer's ip:port, one per live connection
SToolIds == {"get_quote", "get_news"}
MsgIds == 1..MaxMessages          \* correlation ids of the clients' messages

\* tool_config dicts passed to register_tool; "absent" is a missing key.
\* description, version and capabilities are stored and listed by the same
\* pattern as name and are left out
Configs ==
  [name : {"absent", "Quote"}, parameters : {"absent", "symbol"},
   category : {"absent", "market"}, handler : {"ok"}]
  \cup [name : {"Quote"}, parameters : {"symbol"}, category : {"market"},
        handler : {"absent", "TypeError", "ValueError", "RuntimeError"}]

NoEntry == [id |-> "none", name |-> "none", parameters |-> "none",
            category |-> "none", handler |-> "none"]

\* categories a discover message can carry: no key, the empty string, a
\* category tools are registered under, the default one, one nobody uses
Categories == {"absent", "", "market", "general", "news"}

\* payloads a client can write to the socket; an id marked "fresh" is
\* replaced by a new correlation id when the payload is written
Payloads ==
  [kind : {"not_json", "non_object"}, type : {"none"}, id : {"absent"},
   tool_id : {"none"}, category : {"absent"}]
  \cup [kind : {"object"}, type : {"absent"}, id : {"absent"},
        tool_id : {"none"}, category : {"absent"}]
  \cup [kind : {"object"}, type : {"unknown", "subscribe", "discover"},
        id : {"fresh"}, tool_id : {"none"}, category : {"absent"}]
  \cup [kind : {"object"}, type : {"invoke"}, id : {"fresh"},
        tool_id : SToolIds \cup {"does_not_exist"}, category : {"absent"}]

NoPayload == [kind |-> "none", type |-> "none", id |-> "absent",
              tool_id |-> "none", category |-> "absent"]

\* a frame the server sends; "absent" is a key the dict does not have
NoFrame == [type |-> "none", id |-> "absent", tool_id |-> "absent",
            success |-> "absent", error |-> "absent", tools |-> {}]

\* prev: the connection and the success flag of the exchange before
NoExchange == [conn |-> 0, msg |-> NoPayload, resp |-> NoFrame, raised |-> "none",
               prev |-> [conn |-> 0, success |-> "absent"]]

VARIABLES
  stools,             \* MCPServer.tools: tool id -> stored entry
  clients,            \* keys of MCPServer.clients
  transport,          \* per connection: "none" | "open" | "closedOK" | "closedErr"
  handle_connection,  \* per connection, its task: "none" | "running" |
                      \*   "ended" | "crashed"
  sinbox,             \* per connection: payloads received, not yet iterated
  exchange,           \* the last message handled and what was sent for it
  nmsg,               \* payloads clients have written so far
  nreg,               \* register_tool calls so far
  lastreg,            \* arguments of the last register_tool call
  discover_response   \* what the last direct handle_discover call returned

svars == <<stools, clients, transport, handle_connection, sinbox, exchange,
           nmsg, nreg, lastreg, discover_response>>

NoReg == [id |-> "none", cfg |-> NoEntry]
NoListing == [category |-> "none", tools |-> {}]

SInit ==
  /\ stools = [t \in SToolIds |-> NoEntry]
  /\ clients = {}
  /\ transport = [c \in Conns |-> "none"]
  /\ handle_connection = [c \in Conns |-> "none"]
  /\ sinbox = [c \in Conns |-> <<>>]
  /\ exchange = NoExchange
  /\ nmsg = 0
  /\ nreg = 0
  /\ lastreg = NoReg
  /\ discover_response = NoListing

\* ------------------------------------------------------- the rate limiter
\* backend/utils/rate_limiter.py, and its use by execute_agent of
\* backend/api/routers/agents.py. Time is counted in whole seconds
max_requests == 2                  \* RateLimiter.max_requests
window_seconds == 2                \* RateLimiter.window_seconds
MaxTime == 4                       \* the clock stops here
Keys == {"global", "user"}

NoCall == [op |-> "none", key |-> "none", allowed |-> FALSE, wait |-> 0,
           remaining |-> 0]
NoInfo == [status |-> "none", requests_remaining |-> 0]

VARIABLES
  requests,           \* RateLimiter.requests: key -> deque of timestamps
  now,                \* datetime.now()
  admitted,           \* per key: the times of all admitted is_allowed calls
  call,               \* the last call of the limiter and what it returned
  rate_limit_info     \* rate_limit_info of execute_agent's last response

rvars == <<requests, now, admitted, call, rate_limit_info>>

RInit ==
  /\ requests = [key \in Keys |-> <<>>]
  /\ now = 0
  /\ admitted = [key \in Keys |-> <<>>]
  /\ call = NoCall
  /\ rate_limit_info = NoInfo

\* ------------------------------------------------------------- the agent
\* backend/agents/base_agent.py: _connect_mcp_servers creates one MCPClient
\* per configured server; cleanup disconnects self.mcp_client
MaxServers == 4
Servers == 1..MaxServers

VARIABLES
  mcp_servers,        \* BaseAgent.mcp_servers, the configured servers
  mcp_clients,        \* per server, the MCPClient created for it: "none" |
                      \*   "connected" | "refused" | "raised" | "closed"
  mcp_client,         \* BaseAgent.mcp_client: index of the client, 0 = None
  agent               \* initialize() / cleanup(): pc and the loop index

avars == <<mcp_servers, mcp_clients, mcp_client, agent>>

AInit ==
  /\ mcp_servers \in {[i \in 1..n |-> i] : n \in 0..MaxServers}
  /\ mcp_clients = [i \in Servers |-> "none"]
  /\ mcp_client = 0
  /\ agent = [pc |-> "new", i |-> 0]

xvars == <<rvars, avars>>

\* the limiter before its first call, an agent without servers
XInit == RInit /\ AInit /\ mcp_servers = <<>>

vars == <<pvars, mvars, svars, xvars>>

MInit ==
  /\ server_urls \in ServerUrlLists
  /\ websocket_connections = [u \in Urls |-> 0]
  /\ tools = [t \in MTools |-> "none"]
  /\ sock = [h \in H |-> "unused"]
  /\ surl = [h \in H |-> "none"]
  /\ subscribe_msg = [h \in H |-> "none"]
  /\ listen = [h \in H |-> "none"]
  /\ ratt = [h \in H |-> 0]
  /\ wait = [h \in H |-> 0]
  /\ minbox = [h \in H |-> <<>>]
  /\ conn = [pc |-> "idle", i |-> 1, ok |-> FALSE]
  /\ disc = [pc |-> "idle", todo |-> {}, calls |-> 0]
  /\ inv = [k \in Invocations |-> NoInv]
  /\ msent = {}
  /\ handled = {}

PInit ==
  /\ websocket = "None"
  /\ connected = FALSE
  /\ response_handlers = {}
  /\ future = [c \in Ids |-> "none"]
  /\ future_result = [c \in Ids |-> NoMsg]
  /\ ptools = {}
  /\ inbox = <<>>
  /\ handle_messages = "none"
  /\ kind = [c \in Ids |-> "none"]
  /\ cpc = [c \in Ids |-> "idle"]
  /\ cerr = [c \in Ids |-> "none"]
  /\ sent = {}
  /\ nextId = 1
  /\ last = [op |-> "none", id |-> 0]
  /\ processed = {}

\* ---- _handle_messages ----------------------------------------------------

\* line 120-121 / 125-126: the slot a response is routed to is the one
\* registered under the response's own id
SlotOldest(f) ==
  IF response_handlers = {} THEN f.id
  ELSE CHOOSE c \in response_handlers : \A d \in response_handlers : c <= d

SlotFor(f) == f.id

\* the except branch of _handle_messages: the task ends, connected is cleared
LoopCrash(f) ==
  /\ connected' = FALSE
  /\ handle_messages' = "crashed"
  /\ last' = [op |-> "crashed", id |-> f.id]
  /\ UNCHANGED <<response_handlers, future, future_result>>

\* Future.set_result: legal on a pending future only; on a done or cancelled
\* one it raises InvalidStateError, which the except branch catches
SetResult(c, f) ==
  IF future[c] = "pending"
  THEN /\ future' = [future EXCEPT ![c] = "done"]
       /\ future_result' = [future_result EXCEPT ![c] = f]
       /\ last' = [op |-> "routed", id |-> f.id]
       /\ UNCHANGED <<connected, handle_messages, response_handlers>>
  ELSE LoopCrash(f)

LoopSkip(f, what) ==
  /\ last' = [op |-> what, id |-> f.id]
  /\ UNCHANGED <<connected, handle_messages, response_handlers, future,
                 future_result>>

\* one iteration of `async for message in self.websocket`
HandleFrame ==
  /\ handle_messages = "running"
  /\ inbox # <<>>
  /\ LET f == Head(inbox) IN
       /\ inbox' = Tail(inbox)
       /\ IF f.type = "not_json" THEN LoopCrash(f)
          ELSE IF f.type \in {"tool_response", "tool_list_response"}
          THEN IF ~f.valid THEN LoopCrash(f)
               ELSE IF SlotFor(f) \in response_handlers
                    THEN SetResult(SlotFor(f), f)
                    ELSE LoopSkip(f, "discarded")
          ELSE LoopSkip(f, "ignored")
  /\ UNCHANGED <<websocket, ptools, kind, cpc, cerr, sent, nextId>>
  /\ UNCHANGED processed
  /\ UNCHANGED mvars
  /\ UNCHANGED svars
  /\ UNCHANGED xvars

\* the iteration ends when the transport is closed and drained: normally on a
\* clean close (1000/1001), with ConnectionClosedError otherwise
LoopClosed ==
  /\ handle_messages = "running"
  /\ inbox = <<>>
  /\ websocket \in {"closedOK", "closedErr"}
  /\ IF websocket = "closedOK"
     THEN /\ handle_messages' = "ended"
          /\ last' = [op |-> "ended", id |-> 0]
          /\ UNCHANGED <<connected, response_handlers, future, future_result>>
     ELSE LoopCrash(NoMsg)
  /\ UNCHANGED <<websocket, ptools, inbox, kind, cpc, cerr, sent, nextId>>
  /\ UNCHANGED processed
  /\ UNCHANGED mvars
  /\ UNCHANGED svars
  /\ UNCHANGED xvars

\* ---- _send_and_wait ------------------------------------------------------

Raise(c, k, e) ==
  /\ kind' = [kind EXCEPT ![c] = k]
  /\ cpc' = [cpc EXCEPT ![c] = "raised"]
  /\ cerr' = [cerr EXCEPT ![c] = e]

\* lines 92-100: the connected test, the slot registration and the send
SendAndWait(c, k, isconn, ws) ==
  IF ~isconn
  THEN /\ Raise(c, k, "NotConnected")
       /\ UNCHANGED <<response_handlers, future, sent>>
  ELSE /\ response_handlers' = response_handlers \cup {c}
       /\ future' = [future EXCEPT ![c] = "pending"]
       /\ IF ws = "open"
          THEN /\ sent' = sent \cup {c}
               /\ kind' = [kind EXCEPT ![c] = k]
               /\ cpc' = [cpc EXCEPT ![c] = "waiting"]
               /\ UNCHANGED cerr
          ELSE \* websocket.send raises ConnectionClosed at line 100,
               \* before the try/finally of lines 103-109 is entered
               /\ Raise(c, k, "SendFailed")
               /\ UNCHANGED sent

\* the finally clause, line 109
KeepSlot(c) == response_handlers

ReleaseSlot(c) == response_handlers \ {c}

\* wait_for called without a timeout: the timer never fires
NoTimeout(c) == FALSE /\ UNCHANGED vars

\* asyncio.wait_for's timer: the awaited future is cancelled and the waiting
\* coroutine is scheduled; it runs at a later turn of the event loop
Timeout(c) ==
  /\ cpc[c] = "waiting"
  /\ future[c] = "pending"
  /\ future' = [future EXCEPT ![c] = "cancelled"]
  /\ UNCHANGED <<websocket, connected, response_handlers, future_result,
                 ptools, inbox, handle_messages, kind, cpc, cerr, sent,
                 nextId, last>>
  /\ UNCHANGED processed
  /\ UNCHANGED mvars
  /\ UNCHANGED svars
  /\ UNCHANGED xvars

\* lines 103-109 and the caller's use of the response (lines 60-65, 85-88)
Resume(c) ==
  /\ cpc[c] = "waiting"
  /\ future[c] \in {"done", "cancelled"}
  /\ response_handlers' = ReleaseSlot(c)
  /\ IF future[c] = "cancelled"
     THEN /\ cpc' = [cpc EXCEPT ![c] = "raised"]
          /\ cerr' = [cerr EXCEPT ![c] = "Timeout"]
          /\ UNCHANGED ptools
     ELSE LET r == future_result[c] IN
          IF kind[c] = "tool"
          THEN IF r.type = "tool_response"
               THEN /\ cpc' = [cpc EXCEPT ![c] = "returned"]
                    /\ UNCHANGED <<cerr, ptools>>
               ELSE /\ cpc' = [cpc EXCEPT ![c] = "raised"]
                    /\ cerr' = [cerr EXCEPT ![c] = "UnexpectedType"]
                    /\ UNCHANGED ptools
          ELSE /\ cpc' = [cpc EXCEPT ![c] = "returned"]
               /\ ptools' = IF r.type = "tool_list_response"
                            THEN ServerTools ELSE ptools
               /\ UNCHANGED cerr
  /\ UNCHANGED <<websocket, connected, future, future_result, inbox,
                 handle_messages, kind, sent, nextId, last>>
  /\ UNCHANGED processed
  /\ UNCHANGED mvars
  /\ UNCHANGED svars
  /\ UNCHANGED xvars

\* ---- execute_tool, connect, disconnect -----------------------------------

ExecuteTool(t) ==
  /\ nextId <= MaxCalls
  /\ nextId' = nextId + 1
  /\ IF t \notin ptools
     THEN /\ Raise(nextId, "tool", "UnknownTool")
          /\ UNCHANGED <<response_handlers, future, sent>>
     ELSE SendAndWait(nextId, "tool", connected, websocket)
  /\ UNCHANGED <<websocket, connected, future_result, ptools, inbox,
                 handle_messages, last>>
  /\ UNCHANGED processed
  /\ UNCHANGED mvars
  /\ UNCHANGED svars
  /\ UNCHANGED xvars

\* connect(), lines 27-42: open the transport, start the message task, then
\* discover_tools() sends a tool_list_request and waits
Connect ==
  /\ websocket = "None"
  /\ nextId <= MaxCalls
  /\ nextId' = nextId + 1
  /\ websocket' = "open"
  /\ connected' = TRUE
  /\ handle_messages' = "running"
  /\ SendAndWait(nextId, "list", TRUE, "open")
  /\ UNCHANGED <<future_result, ptools, inbox, last>>
  /\ UNCHANGED processed
  /\ UNCHANGED mvars
  /\ UNCHANGED svars
  /\ UNCHANGED xvars

\* disconnect(), lines 44-49
PDisconnect ==
  /\ websocket # "None"
  /\ websocket' = IF websocket = "open" THEN "closedOK" ELSE websocket
  /\ connected' = FALSE
  /\ UNCHANGED <<response_handlers, future, future_result, ptools, inbox,
                 handle_messages, kind, cpc, cerr, sent, nextId, last>>
  /\ UNCHANGED processed
  /\ UNCHANGED mvars
  /\ UNCHANGED svars
  /\ UNCHANGED xvars

\* ---- the server and the network ------------------------------------------

\* the server answers requests it has received, in any order, any number of
\* times; it may also send frames the client cannot parse
ServerSend(f) ==
  /\ websocket = "open"
  /\ Len(inbox) < MaxInbox
  /\ f.id \in sent \cup {0}
  /\ inbox' = Append(inbox, f)
  /\ UNCHANGED <<websocket, connected, response_handlers, future,
                 future_result, ptools, handle_messages, kind, cpc,
                 cerr, sent, nextId, last>>
  /\ UNCHANGED processed
  /\ UNCHANGED mvars
  /\ UNCHANGED svars
  /\ UNCHANGED xvars

ServerClose(how) ==
  /\ websocket = "open"
  /\ websocket' = how
  /\ UNCHANGED <<connected, response_handlers, future, future_result, ptools,
                 inbox, handle_messages, kind, cpc, cerr, sent, nextId,
                 last>>
  /\ UNCHANGED processed
  /\ UNCHANGED mvars
  /\ UNCHANGED svars
  /\ UNCHANGED xvars

\* ---- the protocol server, backend/mcp/protocol/server.py ------------------

\* the keys of the JSON object process_message sends for a request: the dict
\* literal of lines 64-68 for a tool_list_request, ToolResponse(...).json()
\* of lines 74-79 for a tool_request
ReplyKeys(k) ==
  IF k = "list" THEN {"id", "type", "tools"}
  ELSE {"id", "type", "timestamp", "result"}

ReplyType(k) == IF k = "list" THEN "tool_list_response" ELSE "tool_response"

\* types.py: the fields without a default of ToolListResponse and of
\* ToolResponse, both subclasses of MCPMessage (id, type, timestamp)
Required(type) ==
  IF type = "tool_list_response" THEN {"id", "timestamp", "tools"}
  ELSE {"id", "timestamp", "result"}

\* pydantic's validation in ToolListResponse(**data) / ToolResponse(**data):
\* it raises when a field without a default is missing
Validates(type, keys) == Required(type) \subseteq keys

\* process_message answers request c
ProcessMessage(c) ==
  /\ websocket = "open"
  /\ c \in sent \ processed
  /\ Len(inbox) < MaxInbox
  /\ inbox' = Append(inbox, [type |-> ReplyType(kind[c]), id |-> c,
                             valid |-> Validates(ReplyType(kind[c]),
                                                 ReplyKeys(kind[c]))])
  /\ processed' = processed \cup {c}
  /\ UNCHANGED <<websocket, connected, response_handlers, future,
                 future_result, ptools, handle_messages, kind, cpc,
                 cerr, sent, nextId, last>>
  /\ UNCHANGED mvars
  /\ UNCHANGED svars
  /\ UNCHANGED xvars

\* the 30 s timer of _send_and_wait is long against one exchange: it fires
\* after the server's reply has arrived and been handled
TimeoutAfterReply(c) ==
  /\ c \in processed
  /\ inbox = <<>>
  /\ Timeout(c)

PNext ==
  \/ Connect
  \/ PDisconnect
  \/ \E t \in ToolIds : ExecuteTool(t)
  \/ \E c \in Ids : Timeout(c)
  \/ \E c \in Ids : Resume(c)
  \/ HandleFrame
  \/ LoopClosed
  \/ \E f \in Frames : ServerSend(f)
  \/ \E how \in {"closedOK", "closedErr"} : ServerClose(how)

\* ---- _connect_to_server --------------------------------------------------

\* what one run of _connect_to_server can do: websockets.connect raises
\* ("refused"); the transport opens and the subscribe is sent ("ok"); the
\* transport opens, is stored, and the subscribe send raises ("sendfail")
HasFresh == \E h \in H : sock[h] = "unused"
Fresh == CHOOSE h \in H : sock[h] = "unused" /\ \A g \in H : g < h => sock[g] # "unused"
Outcomes == {"refused"} \cup (IF HasFresh THEN {"ok", "sendfail"} ELSE {})

\* lines 60-73; `lis` is the task table the caller's own step has produced
ConnectToServer(u, how, lis) ==
  IF how = "refused"
  THEN /\ listen' = lis
       /\ UNCHANGED <<websocket_connections, sock, surl, subscribe_msg>>
  ELSE /\ websocket_connections' = [websocket_connections EXCEPT ![u] = Fresh]
       /\ surl' = [surl EXCEPT ![Fresh] = u]
       /\ sock' = [sock EXCEPT ![Fresh] = IF how = "ok" THEN "open" ELSE "closedErr"]
       /\ subscribe_msg' = [subscribe_msg EXCEPT ![Fresh] =
                               IF how = "ok" THEN "sent" ELSE "none"]
       /\ listen' = IF how = "ok" THEN [lis EXCEPT ![Fresh] = "running"] ELSE lis

\* ---- connect -------------------------------------------------------------

\* urlparse(server_url) at line 45: raises ValueError("Invalid IPv6 URL") on
\* an unbalanced bracket in the netloc; the call is outside the try of line 49
UrlparseRaises(u) == u = Malformed

SchemeOf(u) == IF u \in Urls THEN "ws" ELSE IF u = BadScheme THEN "http" ELSE ""

\* lines 36-40
ConnectCall ==
  /\ conn.pc = "idle"
  /\ conn' = IF server_urls = <<>>
             THEN [pc |-> "returned", i |-> 1, ok |-> FALSE]
             ELSE [pc |-> "running", i |-> 1, ok |-> FALSE]
  /\ UNCHANGED <<server_urls, websocket_connections, tools, sock, surl, subscribe_msg,
                 listen, ratt, wait, minbox, disc, inv, msent, handled>>
  /\ UNCHANGED pvars
  /\ UNCHANGED svars
  /\ UNCHANGED xvars

Advance(ok) ==
  IF conn.i = Len(server_urls)
  THEN [pc |-> "returned", i |-> conn.i, ok |-> ok]
  ELSE [pc |-> "running", i |-> conn.i + 1, ok |-> ok]

\* one turn of the for loop, lines 41-53, and the return of line 54
ConnectStep(how) ==
  /\ conn.pc = "running"
  /\ how \in Outcomes
  /\ LET u == server_urls[conn.i] IN
       IF u = NotAString
       THEN /\ conn' = Advance(conn.ok)
            /\ UNCHANGED <<websocket_connections, sock, surl, subscribe_msg, listen>>
       ELSE IF UrlparseRaises(u)
       THEN /\ conn' = [conn EXCEPT !.pc = "raised"]
            /\ UNCHANGED <<websocket_connections, sock, surl, subscribe_msg, listen>>
       ELSE IF SchemeOf(u) \notin {"ws", "wss"}
       THEN /\ conn' = Advance(conn.ok)
            /\ UNCHANGED <<websocket_connections, sock, surl, subscribe_msg, listen>>
       ELSE /\ ConnectToServer(u, how, listen)
            /\ conn' = Advance(conn.ok \/ how = "ok")
  /\ UNCHANGED <<server_urls, tools, ratt, wait, minbox, disc, inv, msent, handled>>
  /\ UNCHANGED pvars
  /\ UNCHANGED svars
  /\ UNCHANGED xvars

\* ---- _listen and _reconnect ----------------------------------------------

\* one turn of `async for message in websocket`, lines 82-89
ListenFrame(h) ==
  /\ listen[h] = "running"
  /\ minbox[h] # <<>>
  /\ LET f == Head(minbox[h]) IN
       /\ minbox' = [minbox EXCEPT ![h] = Tail(@)]
       /\ tools' = IF f.type = "tool_update"
                   THEN [tools EXCEPT ![ToolOf(surl[h])] = surl[h]]
                   ELSE tools
       \* a JSON value that is no object: data.get raises AttributeError,
       \* which neither except clause catches; the task dies
       /\ listen' = IF f.type = "non_dict"
                    THEN [listen EXCEPT ![h] = "crashed"] ELSE listen
  /\ UNCHANGED <<server_urls, websocket_connections, sock, surl, subscribe_msg, ratt, wait, conn,
                 disc, inv, msent, handled>>
  /\ UNCHANGED pvars
  /\ UNCHANGED svars
  /\ UNCHANGED xvars

\* the iteration over a closed transport: it ends normally after a clean
\* close, and raises ConnectionClosed (line 90) after an abnormal one
ListenClosed(h) ==
  /\ listen[h] = "running"
  /\ minbox[h] = <<>>
  /\ sock[h] \in {"closedOK", "closedErr"}
  /\ listen' = [listen EXCEPT ![h] =
                  IF sock[h] = "closedOK" THEN "ended" ELSE "reconnecting"]
  /\ UNCHANGED <<server_urls, websocket_connections, tools, sock, surl, subscribe_msg, ratt, wait,
                 minbox, conn, disc, inv, msent, handled>>
  /\ UNCHANGED pvars
  /\ UNCHANGED svars
  /\ UNCHANGED xvars

\* a backoff that does not grow
FixedBackoff(attempt) == 1

\* line 103: wait = 2 ** attempt, slept at line 105 before the next turn
Backoff(attempt) == 2 ^ attempt

\* one turn of the loop of _reconnect, lines 97-106, run by the _listen task
ListenReconnect(h, how) ==
  /\ listen[h] = "reconnecting"
  /\ how \in Outcomes
  /\ IF how = "ok"
     THEN /\ ConnectToServer(surl[h], how, [listen EXCEPT ![h] = "reconnected"])
          /\ UNCHANGED <<ratt, wait>>
     ELSE /\ ConnectToServer(surl[h], how,
               [listen EXCEPT ![h] =
                  IF ratt[h] + 1 = MaxAttempts THEN "failed" ELSE "reconnecting"])
          /\ wait' = [wait EXCEPT ![h] = Backoff(ratt[h])]
          /\ ratt' = [ratt EXCEPT ![h] = @ + 1]
  /\ UNCHANGED <<server_urls, tools, minbox, conn, disc, inv, msent, handled>>
  /\ UNCHANGED pvars
  /\ UNCHANGED svars
  /\ UNCHANGED xvars

\* ---- invoke_tool under tenacity's retry ----------------------------------

\* tenacity: retry defaults to retry_if_exception_type(Exception), so every
\* exception of an attempt is retried until stop_after_attempt(3)
RetryOn(e) == TRUE

\* an attempt ended with exception e
Fail(k, e, base) ==
  LET b == [base EXCEPT !.sock = 0, !.expired = FALSE, !.ratt = 0,
                        !.wait = 0, !.last = e] IN
  IF RetryOn(e) /\ base.attempt < StopAfterAttempt
  THEN [b EXCEPT !.pc = "sleep"]
  ELSE [b EXCEPT !.pc = "raised"]

\* lines 117-137 of attempt number a
Attempt(k, t, a) ==
  LET base == [inv[k] EXCEPT !.tool = t, !.attempt = a, !.expired = FALSE] IN
  IF tools[t] = "none"
  THEN /\ inv' = [inv EXCEPT ![k] = Fail(k, "ToolNotFound", base)]
       /\ UNCHANGED msent
  ELSE IF websocket_connections[tools[t]] = 0
  THEN /\ inv' = [inv EXCEPT ![k] = Fail(k, "NoConnection", base)]
       /\ UNCHANGED msent
  ELSE LET h == websocket_connections[tools[t]] IN
       IF sock[h] = "open"
       THEN /\ inv' = [inv EXCEPT ![k] =
                         [base EXCEPT !.pc = "recv", !.sock = h]]
            /\ msent' = msent \cup {<<k, a>>}
       ELSE /\ inv' = [inv EXCEPT ![k] = Fail(k, "ConnectionClosed", base)]
            /\ UNCHANGED msent

InvokeTool(k, t) ==
  /\ inv[k].pc = "idle"
  /\ Attempt(k, t, 1)
  /\ UNCHANGED <<server_urls, websocket_connections, tools, sock, surl, subscribe_msg,
                 listen, ratt, wait, minbox, conn, disc, handled>>
  /\ UNCHANGED pvars
  /\ UNCHANGED svars
  /\ UNCHANGED xvars

\* tenacity's sleep is over: the next attempt runs
InvokeRetry(k) ==
  /\ inv[k].pc = "sleep"
  /\ Attempt(k, inv[k].tool, inv[k].attempt + 1)
  /\ UNCHANGED <<server_urls, websocket_connections, tools, sock, surl, subscribe_msg,
                 listen, ratt, wait, minbox, conn, disc, handled>>
  /\ UNCHANGED pvars
  /\ UNCHANGED svars
  /\ UNCHANGED xvars

\* line 156: the loop's clock has passed start_time + timeout
Tick(k) ==
  /\ inv[k].pc = "recv"
  /\ ~inv[k].expired
  /\ inv' = [inv EXCEPT ![k].expired = TRUE]
  /\ UNCHANGED <<server_urls, websocket_connections, tools, sock, surl, subscribe_msg,
                 listen, ratt, wait, minbox, conn, disc, msent, handled>>
  /\ UNCHANGED pvars
  /\ UNCHANGED svars
  /\ UNCHANGED xvars

\* one turn of the while loop, lines 140-158
InvokeRecv(k) ==
  /\ inv[k].pc = "recv"
  /\ LET h == inv[k].sock
         me == inv[k] IN
       IF listen[h] = "running"
       THEN \* the _listen task is already waiting in recv() on this socket:
            \* websockets refuses a second concurrent recv() with an error
            /\ inv' = [inv EXCEPT ![k] = Fail(k, "ConcurrentRecv", me)]
            /\ UNCHANGED minbox
       ELSE IF minbox[h] # <<>>
       THEN LET f == Head(minbox[h]) IN
            /\ minbox' = [minbox EXCEPT ![h] = Tail(@)]
            /\ inv' = [inv EXCEPT ![k] =
                 IF f.type \in {"non_dict", "not_json"} THEN Fail(k, "BadFrame", me)
                 ELSE IF f.type = "response" /\ f.k = k /\ f.a = me.attempt
                 THEN IF f.status = "success"
                      THEN [me EXCEPT !.pc = "returned", !.last = "none", !.sock = 0,
                                      !.expired = FALSE]
                      ELSE Fail(k, "ToolInvocationFailed", me)
                 ELSE IF me.expired THEN Fail(k, "Timeout", me)
                 ELSE me]
       ELSE IF sock[h] = "open"
       THEN \* wait_for(recv(), timeout) expires, line 149
            /\ inv' = [inv EXCEPT ![k] = Fail(k, "Timeout", me)]
            /\ UNCHANGED minbox
       ELSE \* recv() raises ConnectionClosed, line 152
            /\ inv' = [inv EXCEPT ![k] = [me EXCEPT !.pc = "reconnect", !.ratt = 0,
                                                  !.cycles = @ + 1]]
            /\ UNCHANGED minbox
  /\ UNCHANGED <<server_urls, websocket_connections, tools, sock, surl, subscribe_msg,
                 listen, ratt, wait, conn, disc, msent, handled>>
  /\ UNCHANGED pvars
  /\ UNCHANGED svars
  /\ UNCHANGED xvars

\* one turn of the loop of _reconnect called at line 154, then the raise of
\* line 155
InvokeReconnect(k, how) ==
  /\ inv[k].pc = "reconnect"
  /\ how \in Outcomes
  /\ ConnectToServer(tools[inv[k].tool], how, listen)
  /\ inv' = [inv EXCEPT ![k] =
       IF how = "ok" \/ inv[k].ratt + 1 = MaxAttempts
       THEN Fail(k, "ConnectionClosed", inv[k])
       ELSE [inv[k] EXCEPT !.ratt = @ + 1, !.wait = Backoff(inv[k].ratt)]]
  /\ UNCHANGED <<server_urls, tools, ratt, wait, minbox, conn, disc, msent, handled>>
  /\ UNCHANGED pvars
  /\ UNCHANGED svars
  /\ UNCHANGED xvars

\* ---- disconnect ----------------------------------------------------------

Connected == {h \in H : \E u \in Urls : websocket_connections[u] = h}

\* line 166: the snapshot list(self.websocket_connections.items()); with no
\* connection the call runs to its end without suspending
DisconnectCall ==
  /\ disc.pc \in {"idle", "done"}
  /\ disc.calls < MaxDisconnects
  /\ IF Connected = {}
     THEN disc' = [pc |-> "done", todo |-> {}, calls |-> disc.calls + 1]
     ELSE disc' = [pc |-> "closing", todo |-> Connected, calls |-> disc.calls]
  /\ UNCHANGED <<server_urls, websocket_connections, tools, sock, surl, subscribe_msg,
                 listen, ratt, wait, minbox, conn, inv, msent, handled>>
  /\ UNCHANGED pvars
  /\ UNCHANGED svars
  /\ UNCHANGED xvars

\* lines 167-171: await websocket.close(); the closing handshake completes
\* (1000) or fails (1006); an exception of close() is caught and logged
DisconnectClose(h, how) ==
  /\ disc.pc = "closing"
  /\ h \in disc.todo
  /\ sock' = [sock EXCEPT ![h] = IF @ = "open" THEN how ELSE @]
  /\ disc' = [disc EXCEPT !.todo = @ \ {h}]
  /\ UNCHANGED <<server_urls, websocket_connections, tools, surl, subscribe_msg, listen,
                 ratt, wait, minbox, conn, inv, msent, handled>>
  /\ UNCHANGED pvars
  /\ UNCHANGED svars
  /\ UNCHANGED xvars

\* the clear() of line 172 left out
KeepConnections == websocket_connections

\* a dict without entries (0 stands for "no socket under this URL")
NoConnections == [u \in Urls |-> 0]

\* line 172
ClearConnections == NoConnections

DisconnectClear ==
  /\ disc.pc = "closing"
  /\ disc.todo = {}
  /\ websocket_connections' = ClearConnections
  /\ disc' = [pc |-> "done", todo |-> {}, calls |-> disc.calls + 1]
  /\ UNCHANGED <<server_urls, tools, sock, surl, subscribe_msg, listen, ratt, wait, minbox, conn,
                 inv, msent, handled>>
  /\ UNCHANGED pvars
  /\ UNCHANGED svars
  /\ UNCHANGED xvars

\* ---- the servers and the network -----------------------------------------

MServerSend(h, f) ==
  /\ sock[h] = "open"
  /\ minbox[h] = <<>>
  /\ f.type = "response" => <<f.k, f.a>> \in msent
  /\ minbox' = [minbox EXCEPT ![h] = <<f>>]
  /\ UNCHANGED <<server_urls, websocket_connections, tools, sock, surl, subscribe_msg,
                 listen, ratt, wait, conn, disc, inv, msent, handled>>
  /\ UNCHANGED pvars
  /\ UNCHANGED svars
  /\ UNCHANGED xvars

MServerClose(h, how) ==
  /\ sock[h] = "open"
  /\ sock' = [sock EXCEPT ![h] = how]
  /\ UNCHANGED <<server_urls, websocket_connections, tools, surl, subscribe_msg, listen,
                 ratt, wait, minbox, conn, disc, inv, msent, handled>>
  /\ UNCHANGED pvars
  /\ UNCHANGED svars
  /\ UNCHANGED xvars

Closures == {"closedOK", "closedErr"}

\* the frame MCPServer.handle_subscribe returns
SubscribeResponse ==
  [type |-> "subscribe_response", k |-> "none", a |-> 0, status |-> "none"]

\* the server of backend/mcp/server.py handles the client's subscribe message:
\* handle_message dispatches it to handle_subscribe and sends the
\* subscribe_response; no tool catalog is sent
HandleSubscribe(h) ==
  /\ sock[h] = "open"
  /\ subscribe_msg[h] = "sent"
  /\ minbox[h] = <<>>
  /\ minbox' = [minbox EXCEPT ![h] = <<SubscribeResponse>>]
  /\ subscribe_msg' = [subscribe_msg EXCEPT ![h] = "answered"]
  /\ UNCHANGED <<server_urls, websocket_connections, tools, sock, surl,
                 listen, ratt, wait, conn, disc, inv, msent, handled>>
  /\ UNCHANGED pvars
  /\ UNCHANGED svars
  /\ UNCHANGED xvars

\* connect(), the _listen tasks and the servers
LinkNext ==
  \/ ConnectCall
  \/ \E how \in {"refused", "ok", "sendfail"} : ConnectStep(how)
  \/ \E h \in H : ListenFrame(h)
  \/ \E h \in H : ListenClosed(h)
  \/ \E h \in H, how \in {"refused", "ok", "sendfail"} : ListenReconnect(h, how)
  \/ \E h \in H, f \in MFrames : MServerSend(h, f)
  \/ \E h \in H, how \in Closures : MServerClose(h, how)

InvokeNext ==
  \/ \E k \in Invocations, t \in MTools : InvokeTool(k, t)
  \/ \E k \in Invocations : InvokeRetry(k)
  \/ \E k \in Invocations : Tick(k)
  \/ \E k \in Invocations : InvokeRecv(k)
  \/ \E k \in Invocations, how \in {"refused", "ok", "sendfail"} : InvokeReconnect(k, how)

DisconnectNext ==
  \/ DisconnectCall
  \/ \E h \in H, how \in Closures : DisconnectClose(h, how)
  \/ DisconnectClear

MNext == LinkNext \/ InvokeNext \/ DisconnectNext

\* ---- the server: register_tool and handle_discover -------------------------

\* tool_config.get(key, default)
Default(v, d) == IF v = "absent" THEN d ELSE v

\* lines 100-109: the entry register_tool builds
Stored(id, cfg) ==
  [id |-> id, name |-> Default(cfg.name, id),
   parameters |-> Default(cfg.parameters, "{}"),
   category |-> Default(cfg.category, "general"),
   handler |-> Default(cfg.handler, "None")]

\* a registry that refuses to overwrite
PutIfAbsent(reg, id, entry) ==
  IF reg[id] = NoEntry THEN [reg EXCEPT ![id] = entry] ELSE reg

\* line 100: self.tools[tool_id] = {...}
Put(reg, id, entry) == [reg EXCEPT ![id] = entry]

RegisterTool(id, cfg) ==
  /\ nreg < MaxRegistrations
  /\ stools' = Put(stools, id, Stored(id, cfg))
  /\ nreg' = nreg + 1
  /\ lastreg' = [id |-> id, cfg |-> cfg]
  /\ UNCHANGED <<clients, transport, handle_connection, sinbox, exchange,
                 nmsg, discover_response>>
  /\ UNCHANGED pvars
  /\ UNCHANGED mvars
  /\ UNCHANGED xvars

Registered == {t \in SToolIds : stools[t] # NoEntry}

\* a listing that ignores the category
SelectedAll(category) == Registered

\* lines 114-118: `if category:` filters on a truthy category only
Selected(category) ==
  IF category \in {"absent", ""}
  THEN Registered
  ELSE {t \in Registered : stools[t].category = category}

\* lines 122-132: the fields a listing shows of an entry
Listed(t) ==
  [id |-> stools[t].id, name |-> stools[t].name,
   category |-> stools[t].category, parameters |-> stools[t].parameters]

HandleDiscover(category) == {Listed(t) : t \in Selected(category)}

\* handle_discover called with a message carrying `category`
Discover(category) ==
  /\ discover_response' =
       [category |-> category, tools |-> HandleDiscover(category)]
  /\ UNCHANGED <<stools, clients, transport, handle_connection, sinbox,
                 exchange, nmsg, nreg, lastreg>>
  /\ UNCHANGED pvars
  /\ UNCHANGED mvars
  /\ UNCHANGED xvars

\* ---- the server: handle_invoke ---------------------------------------------

\* the message every raising handler of the model raises with
HandlerMessage == "bad arg"

\* line 172: except TypeError
ExceptTypeError(e) == e = "TypeError"

\* an except clause that lets the handler's exception through
ExceptNothing(e) == FALSE

\* line 180: except Exception
ExceptException(e) == e \in {"TypeError", "ValueError", "RuntimeError"}

\* lines 140-187: the dict handle_invoke returns, or the exception it lets
\* through
HandleInvoke(tool_id) ==
  IF tool_id \notin SToolIds \/ stools[tool_id] = NoEntry
  THEN [NoFrame EXCEPT !.type = "invoke_response",
                       !.error = <<"Tool not found: ", tool_id>>]
  ELSE LET handler == stools[tool_id].handler IN
       IF handler = "None"
       THEN [NoFrame EXCEPT !.type = "invoke_response",
                            !.error = <<"No handler for tool: ", tool_id>>]
       ELSE IF handler = "ok"
       THEN [NoFrame EXCEPT !.type = "invoke_response", !.tool_id = tool_id,
                            !.success = "true"]
       ELSE IF ExceptTypeError(handler)
       THEN [NoFrame EXCEPT !.type = "invoke_response", !.tool_id = tool_id,
                            !.success = "false",
                            !.error = <<"Parameter error: ", HandlerMessage>>]
       ELSE IF ExceptException(handler)
       THEN [NoFrame EXCEPT !.type = "invoke_response", !.tool_id = tool_id,
                            !.success = "false", !.error = <<HandlerMessage>>]
       ELSE [NoFrame EXCEPT !.type = "raised", !.error = <<HandlerMessage>>]

\* ---- the server: handle_message and handle_connection ---------------------

\* lines 31-35; unsubscribe and health answer like subscribe and are left out
Handlers == {"discover", "invoke", "subscribe"}

\* lines 82-90
SendError(message_id, error) ==
  [NoFrame EXCEPT !.type = "error", !.id = message_id, !.error = error]

\* what the registered handler of the message's type returns
Dispatch(p) ==
  IF p.type = "invoke" THEN HandleInvoke(p.tool_id)
  ELSE IF p.type = "discover"
  THEN [NoFrame EXCEPT !.type = "discover_response",
                       !.tools = HandleDiscover(p.category)]
  ELSE [NoFrame EXCEPT !.type = "subscribe_response"]

\* lines 59-75: the frame handle_message sends for a payload; type "raised"
\* stands for an exception that leaves handle_message
Response(p) ==
  IF p.kind = "not_json"
  THEN SendError("absent", <<"Invalid JSON">>)
  ELSE IF p.kind = "non_object"
  THEN \* data.get raises AttributeError at line 61; the except clause of
       \* line 73 then reads message_id, which line 62 never bound
       [NoFrame EXCEPT !.type = "raised", !.error = <<"UnboundLocalError">>]
  ELSE IF p.type \in Handlers
  THEN LET r == Dispatch(p) IN
       IF r.type = "raised"
       THEN SendError(p.id, r.error)
       ELSE [r EXCEPT !.id = p.id]
  ELSE SendError(p.id, <<"Unknown message type: ", p.type>>)

\* the finally clause left out
KeepClient(c) == clients

\* line 55: del self.clients[client_id]
RemoveClient(c) == clients \ {c}

\* lines 45-47: a connection is accepted; its handle_connection task starts.
\* Connections are numbered in the order they are accepted
Accept(c) ==
  /\ transport[c] = "none"
  /\ \A d \in Conns : d < c => transport[d] # "none"
  /\ transport' = [transport EXCEPT ![c] = "open"]
  /\ clients' = clients \cup {c}
  /\ handle_connection' = [handle_connection EXCEPT ![c] = "running"]
  /\ UNCHANGED <<stools, sinbox, exchange, nmsg, nreg, lastreg,
                 discover_response>>
  /\ UNCHANGED pvars
  /\ UNCHANGED mvars
  /\ UNCHANGED xvars

Prev == [conn |-> exchange.conn, success |-> exchange.resp.success]

\* one turn of the loop of lines 50-51
HandleMessage(c) ==
  /\ handle_connection[c] = "running"
  /\ sinbox[c] # <<>>
  /\ LET p == Head(sinbox[c])
         r == Response(p) IN
       IF r.type = "raised"
       THEN \* the exception leaves handle_connection through the finally
            \* clause; websockets closes the connection (code 1011)
            /\ clients' = RemoveClient(c)
            /\ handle_connection' = [handle_connection EXCEPT ![c] = "crashed"]
            /\ transport' = [transport EXCEPT ![c] =
                               IF @ = "open" THEN "closedErr" ELSE @]
            /\ exchange' = [conn |-> c, msg |-> p, resp |-> NoFrame,
                            raised |-> r.error[1], prev |-> Prev]
       ELSE IF transport[c] # "open"
       THEN \* send raises ConnectionClosed, also inside the except clauses
            \* of handle_message; line 52 catches it
            /\ clients' = RemoveClient(c)
            /\ handle_connection' = [handle_connection EXCEPT ![c] = "ended"]
            /\ exchange' = [conn |-> c, msg |-> p, resp |-> NoFrame,
                            raised |-> "ConnectionClosed", prev |-> Prev]
            /\ UNCHANGED transport
       ELSE /\ exchange' = [conn |-> c, msg |-> p, resp |-> r,
                            raised |-> "none", prev |-> Prev]
            /\ UNCHANGED <<clients, handle_connection, transport>>
  /\ sinbox' = [sinbox EXCEPT ![c] = <<>>]
  /\ UNCHANGED <<stools, nmsg, nreg, lastreg, discover_response>>
  /\ UNCHANGED pvars
  /\ UNCHANGED mvars
  /\ UNCHANGED xvars

\* the iteration over a closed and drained connection ends, normally or with
\* ConnectionClosed (line 52); the finally clause runs
ConnectionEnds(c) ==
  /\ handle_connection[c] = "running"
  /\ sinbox[c] = <<>>
  /\ transport[c] \in {"closedOK", "closedErr"}
  /\ clients' = RemoveClient(c)
  /\ handle_connection' = [handle_connection EXCEPT ![c] = "ended"]
  /\ UNCHANGED <<stools, transport, sinbox, exchange, nmsg, nreg, lastreg,
                 discover_response>>
  /\ UNCHANGED pvars
  /\ UNCHANGED mvars
  /\ UNCHANGED xvars

\* a client writes a payload; one message is in flight at a time
ClientSend(c, p) ==
  /\ transport[c] = "open"
  /\ nmsg < MaxMessages
  /\ \A d \in Conns : sinbox[d] = <<>>
  /\ sinbox' = [sinbox EXCEPT ![c] =
                  <<[p EXCEPT !.id = IF @ = "fresh" THEN nmsg + 1 ELSE @]>>]
  /\ nmsg' = nmsg + 1
  /\ UNCHANGED <<stools, clients, transport, handle_connection, exchange,
                 nreg, lastreg, discover_response>>
  /\ UNCHANGED pvars
  /\ UNCHANGED mvars
  /\ UNCHANGED xvars

\* a client closes its connection, or the connection breaks
ClientClose(c, how) ==
  /\ transport[c] = "open"
  /\ transport' = [transport EXCEPT ![c] = how]
  /\ UNCHANGED <<stools, clients, handle_connection, sinbox, exchange, nmsg,
                 nreg, lastreg, discover_response>>
  /\ UNCHANGED pvars
  /\ UNCHANGED mvars
  /\ UNCHANGED xvars

ServerNext ==
  \/ \E c \in Conns : Accept(c)
  \/ \E c \in Conns : HandleMessage(c)
  \/ \E c \in Conns : ConnectionEnds(c)
  \/ \E c \in Conns, p \in Payloads : ClientSend(c, p)
  \/ \E c \in Conns, how \in {"closedOK", "closedErr"} : ClientClose(c, how)

RegistryNext ==
  \/ \E id \in SToolIds, cfg \in Configs : RegisterTool(id, cfg)
  \/ \E category \in Categories : Discover(category)

\* ---- specifications ------------------------------------------------------

\* ---- RateLimiter -----------------------------------------------------------

\* lines 28-29 and 49-50: pop from the left while the oldest is older than
\* window_start
RECURSIVE PopOld(_, _)
PopOld(q, window_start) ==
  IF q # <<>> /\ Head(q) < window_start
  THEN PopOld(Tail(q), window_start)
  ELSE q

Pruned(q, t) == PopOld(q, t - window_seconds)

\* line 32: the test that admits a call made at time t
Allowed(q, t) == Len(Pruned(q, t)) < max_requests

\* a denied call that appends its time all the same
DeniedRecorded(q, t) == Append(q, t)

\* lines 35-40: the deque a denied call leaves, nothing is appended
Denied(q, t) == q

\* lines 24-40: the deque after is_allowed called at time t
AfterIsAllowed(q, t) ==
  IF Allowed(q, t) THEN Append(Pruned(q, t), t) ELSE Denied(Pruned(q, t), t)

\* lines 37-39
SecondsUntilAllowed(q, t) ==
  LET next_allowed == Head(Pruned(q, t)) + window_seconds IN
  IF next_allowed - t > 0 THEN next_allowed - t ELSE 0

\* line 52
Remaining(q, t) ==
  IF max_requests - Len(Pruned(q, t)) > 0
  THEN max_requests - Len(Pruned(q, t)) ELSE 0

\* is_allowed(key)
IsAllowed(key) ==
  /\ requests' = [requests EXCEPT ![key] = AfterIsAllowed(@, now)]
  /\ admitted' = IF Allowed(requests[key], now)
                 THEN [admitted EXCEPT ![key] = Append(@, now)]
                 ELSE admitted
  /\ call' = [op |-> "is_allowed", key |-> key,
              allowed |-> Allowed(requests[key], now),
              wait |-> IF Allowed(requests[key], now) THEN 0
                       ELSE SecondsUntilAllowed(requests[key], now),
              remaining |-> 0]
  /\ UNCHANGED <<now, rate_limit_info>>
  /\ UNCHANGED avars
  /\ UNCHANGED <<pvars, mvars, svars>>

\* get_remaining(key)
GetRemaining(key) ==
  /\ requests' = [requests EXCEPT ![key] = Pruned(@, now)]
  /\ call' = [op |-> "get_remaining", key |-> key, allowed |-> FALSE,
              wait |-> 0, remaining |-> Remaining(requests[key], now)]
  /\ UNCHANGED <<now, admitted, rate_limit_info>>
  /\ UNCHANGED avars
  /\ UNCHANGED <<pvars, mvars, svars>>

\* time passes
ClockTick ==
  /\ now < MaxTime
  /\ now' = now + 1
  /\ UNCHANGED <<requests, admitted, call, rate_limit_info>>
  /\ UNCHANGED avars
  /\ UNCHANGED <<pvars, mvars, svars>>

\* ---- execute_agent ---------------------------------------------------------

\* agents.py lines 37-93: is_allowed, then get_remaining, then the response;
\* outcome is how the agent run ended, "completed" or "failed"
ExecuteAgent(outcome) ==
  LET key == "global"
      is_allowed == Allowed(requests[key], now)
      q == AfterIsAllowed(requests[key], now)
      remaining == Remaining(q, now) IN
  /\ requests' = [requests EXCEPT ![key] = Pruned(q, now)]
  /\ admitted' = IF is_allowed
                 THEN [admitted EXCEPT ![key] = Append(@, now)]
                 ELSE admitted
  /\ call' = [op |-> "get_remaining", key |-> key, allowed |-> FALSE,
              wait |-> 0, remaining |-> remaining]
  /\ rate_limit_info' =
       IF ~is_allowed
       THEN [status |-> "rate_limited", requests_remaining |-> 0]
       ELSE [status |-> outcome, requests_remaining |-> remaining - 1]
  /\ UNCHANGED now
  /\ UNCHANGED avars
  /\ UNCHANGED <<pvars, mvars, svars>>

LimiterNext ==
  \/ ClockTick
  \/ \E key \in Keys : IsAllowed(key)
  \/ \E key \in Keys : GetRemaining(key)
  \/ \E outcome \in {"completed", "failed"} : ExecuteAgent(outcome)

\* ---- BaseAgent --------------------------------------------------------------

\* initialize() reaches _connect_mcp_servers, lines 63 and 70-76
Initialize ==
  /\ agent.pc = "new"
  /\ agent' = IF mcp_servers = <<>>
              THEN [pc |-> "initialized", i |-> 0]
              ELSE [pc |-> "connecting", i |-> 1]
  /\ UNCHANGED <<mcp_servers, mcp_clients, mcp_client>>
  /\ UNCHANGED rvars
  /\ UNCHANGED <<pvars, mvars, svars>>

\* lines 77-87, one turn of the loop: a new MCPClient for the server, whose
\* connect() returns True ("ok"), returns False ("refused") or raises
ConnectMcpServer(how) ==
  /\ agent.pc = "connecting"
  /\ LET i == agent.i IN
       /\ mcp_clients' = [mcp_clients EXCEPT ![i] =
                            IF how = "ok" THEN "connected" ELSE how]
       /\ mcp_client' = IF how = "ok" THEN i ELSE mcp_client
       /\ agent' = IF i = Len(mcp_servers)
                   THEN [pc |-> "initialized", i |-> 0]
                   ELSE [agent EXCEPT !.i = i + 1]
  /\ UNCHANGED mcp_servers
  /\ UNCHANGED rvars
  /\ UNCHANGED <<pvars, mvars, svars>>

\* client.py lines 164-172, disconnect() of the client of server c
Disconnect(cs, c) == [cs EXCEPT ![c] = "closed"]

\* cleanup(), lines 145-149
Cleanup ==
  /\ agent.pc = "initialized"
  /\ mcp_clients' = IF mcp_client # 0
                    THEN Disconnect(mcp_clients, mcp_client)
                    ELSE mcp_clients
  /\ agent' = [agent EXCEPT !.pc = "cleaned"]
  /\ UNCHANGED <<mcp_servers, mcp_client>>
  /\ UNCHANGED rvars
  /\ UNCHANGED <<pvars, mvars, svars>>

AgentNext ==
  \/ Initialize
  \/ \E how \in {"ok", "refused", "raised"} : ConnectMcpServer(how)
  \/ Cleanup

\* ---- specifications ----------------------------------------------------------

Init == PInit /\ MInit /\ XInit /\ SInit

\* the rate limiter and execute_agent
LimiterInit == Init /\ server_urls = <<>>

LimiterSpec == LimiterInit /\ [][LimiterNext]_vars

\* one agent, created with any number of servers
AgentInit == PInit /\ MInit /\ SInit /\ server_urls = <<>> /\ RInit /\ AInit

AgentSpec == AgentInit /\ [][AgentNext]_vars

Next == PNext \/ MNext

Spec == Init /\ [][Next]_vars

\* the protocol client alone
ProtoInit == PInit /\ MInit /\ XInit /\ SInit /\ server_urls = <<>>

ProtoSpec == ProtoInit /\ [][PNext]_vars

\* the protocol client against the protocol server: every request that
\* reaches the server is answered by process_message; either side may close
\* the connection
HandshakeNext ==
  \/ Connect
  \/ PDisconnect
  \/ \E t \in ToolIds : ExecuteTool(t)
  \/ \E c \in Ids : ProcessMessage(c)
  \/ HandleFrame
  \/ LoopClosed
  \/ \E c \in Ids : TimeoutAfterReply(c)
  \/ \E c \in Ids : Resume(c)
  \/ \E how \in {"closedOK", "closedErr"} : ServerClose(how)

HandshakeFairness ==
  /\ WF_vars(HandleFrame)
  /\ \A c \in Ids :
       /\ WF_vars(ProcessMessage(c))
       /\ WF_vars(TimeoutAfterReply(c))
       /\ WF_vars(Resume(c))

HandshakeSpec == ProtoInit /\ [][HandshakeNext]_vars /\ HandshakeFairness

\* the multi-server client: connections made, lost and closed, no invocation
LinkDisconnectNext == LinkNext \/ DisconnectNext

LinkSpec == Init /\ [][LinkDisconnectNext]_vars

\* the multi-server client configured with one server: connections and
\* invocations, no disconnect()
InvokeInit == PInit /\ MInit /\ XInit /\ SInit /\ Len(server_urls) = 1

LinkInvokeNext == LinkNext \/ InvokeNext

InvokeSpec == InvokeInit /\ [][LinkInvokeNext]_vars

\* the server with a registry filled at startup: get_quote registered with a
\* handler that succeeds, is missing, or raises; get_news not registered
ServerInit ==
  /\ PInit /\ MInit /\ XInit /\ server_urls = <<>>
  /\ clients = {}
  /\ transport = [c \in Conns |-> "none"]
  /\ handle_connection = [c \in Conns |-> "none"]
  /\ sinbox = [c \in Conns |-> <<>>]
  /\ exchange = NoExchange
  /\ nmsg = 0 /\ nreg = 0 /\ lastreg = NoReg /\ discover_response = NoListing
  /\ \E cfg \in Configs :
       /\ cfg.name = "Quote" /\ cfg.parameters = "symbol" /\ cfg.category = "market"
       /\ stools = [t \in SToolIds |->
                      IF t = "get_quote" THEN Stored(t, cfg) ELSE NoEntry]

ServerSpec == ServerInit /\ [][ServerNext]_vars

\* the registry: registrations and listings in any order
RegistryInit == PInit /\ MInit /\ XInit /\ SInit /\ server_urls = <<>>

RegistrySpec == RegistryInit /\ [][RegistryNext]_vars

\* the multi-server client against servers of backend/mcp/server.py: the
\* servers answer what the client sends and may drop a connection; the event
\* loop runs every coroutine that can run
MergeNext ==
  \/ ConnectCall
  \/ \E how \in {"refused", "ok", "sendfail"} : ConnectStep(how)
  \/ \E h \in H : HandleSubscribe(h)
  \/ \E h \in H : ListenFrame(h)
  \/ \E h \in H : ListenClosed(h)
  \/ \E h \in H, how \in {"refused", "ok", "sendfail"} : ListenReconnect(h, how)
  \/ \E h \in H, how \in Closures : MServerClose(h, how)

MergeFairness ==
  /\ WF_vars(\E how \in {"refused", "ok", "sendfail"} : ConnectStep(how))
  /\ \A h \in H :
       /\ WF_vars(HandleSubscribe(h))
       /\ WF_vars(ListenFrame(h))
       /\ WF_vars(ListenClosed(h))
       /\ WF_vars(\E how \in {"refused", "ok", "sendfail"} : ListenReconnect(h, how))

MergeSpec == Init /\ [][MergeNext]_vars /\ MergeFairness

\* client.py lines 128-134, the message of invoke_tool as the server's
\* handle_message reads it: a JSON object whose "type" is "tool_invocation"
\* and which has no "id" key (the correlation id is under "request_id", the
\* tool under "tool_name")
ToolInvocation ==
  [kind |-> "object", type |-> "tool_invocation", id |-> "absent",
   tool_id |-> "none", category |-> "absent"]

\* client.py lines 143-145, a frame of the server as invoke_tool reads it:
\* response_data.get("request_id") and .get("status") of a dict without
\* these keys are None
AsRead(r) ==
  [type |-> r.type,
   k |-> IF "request_id" \in DOMAIN r THEN r.request_id ELSE "none",
   a |-> 0,
   status |-> IF "status" \in DOMAIN r THEN r.status ELSE "none"]

\* the server of backend/mcp/server.py handles attempt a of invocation k:
\* handle_message answers on the connection the message came from
HandleInvocation(k, a) ==
  /\ <<k, a>> \in msent \ handled
  /\ inv[k].tool \in MTools
  /\ tools[inv[k].tool] \in Urls
  /\ LET h == websocket_connections[tools[inv[k].tool]] IN
       /\ h \in H
       /\ sock[h] = "open"
       /\ minbox[h] = <<>>
       /\ minbox' = [minbox EXCEPT ![h] = <<AsRead(Response(ToolInvocation))>>]
  /\ handled' = handled \cup {<<k, a>>}
  /\ UNCHANGED <<server_urls, websocket_connections, tools, sock, surl, subscribe_msg,
                 listen, ratt, wait, conn, disc, inv, msent>>
  /\ UNCHANGED pvars
  /\ UNCHANGED svars
  /\ UNCHANGED xvars

\* a server announces its tool: the tool_update frame _listen acts on
ToolUpdate == [type |-> "tool_update", k |-> "none", a |-> 0, status |-> "none"]

\* one invocation against servers that answer every message they receive and
\* announce their tools; no connection is dropped
RpcNext ==
  \/ ConnectCall
  \/ \E how \in {"refused", "ok", "sendfail"} : ConnectStep(how)
  \/ \E h \in H : HandleSubscribe(h)
  \/ \E h \in H : MServerSend(h, ToolUpdate)
  \/ \E h \in H : ListenFrame(h)
  \/ \E k \in Invocations, t \in MTools : InvokeTool(k, t)
  \/ \E k \in Invocations : InvokeRetry(k)
  \/ \E k \in Invocations : Tick(k)
  \/ \E k \in Invocations : InvokeRecv(k)
  \/ \E k \in Invocations, a \in 1..StopAfterAttempt : HandleInvocation(k, a)

RpcFairness ==
  /\ WF_vars(\E how \in {"refused", "ok", "sendfail"} : ConnectStep(how))
  /\ \A h \in H : WF_vars(HandleSubscribe(h)) /\ WF_vars(ListenFrame(h))
  /\ \A k \in Invocations :
       /\ WF_vars(InvokeRetry(k))
       /\ WF_vars(Tick(k))
       /\ WF_vars(InvokeRecv(k))
       /\ \A a \in 1..StopAfterAttempt : WF_vars(HandleInvocation(k, a))

RpcSpec == Init /\ [][RpcNext]_vars /\ RpcFairness

\* one client per run, either of the two classes, under the scheduling the
\* event loop guarantees: a timer that is due fires, a coroutine that can
\* run is run; the servers and the network owe nothing
PIdle == websocket = "None" /\ nextId = 1
MIdle == conn.pc = "idle" /\ disc.pc = "idle" /\ \A k \in Invocations : inv[k].pc = "idle"

LiveNext ==
  \/ MIdle /\ PNext /\ nextId' <= MaxLiveCalls + 1
  \/ /\ PIdle /\ LinkInvokeNext
     /\ \A h \in H : h > MaxLiveSockets => sock'[h] = "unused"

LiveFairness ==
  /\ \A c \in Ids : WF_vars(Timeout(c)) /\ WF_vars(Resume(c))
  /\ \A k \in Invocations :
       /\ WF_vars(InvokeRetry(k))
       /\ WF_vars(Tick(k))
       /\ WF_vars(InvokeRecv(k))
       /\ WF_vars(\E how \in {"refused", "ok", "sendfail"} : InvokeReconnect(k, how))

LiveSpec == InvokeInit /\ [][LiveNext]_vars /\ LiveFairness

\* ------------------------------------------------ claims, protocol client

Finished(c) == cpc[c] \in {"returned", "raised"}

\* C1: whenever _send_and_wait has finished for a message id (matched
\* response, timeout, or a send that failed), the pending map holds no slot
\* for that id.
C1_SlotRemovedWhenFinished ==
  \A c \in Ids : Finished(c) => c \notin response_handlers

\* C2: with several execute_tool calls outstanding, a response carrying id c
\* resolves only the slot registered for c: the response a caller is handed
\* is the one that carries the id of its own request, whatever the order of
\* arrival.
C2_OwnResponse ==
  \A c \in Ids :
    /\ future[c] = "done" => future_result[c].id = c
    /\ cpc[c] = "returned" => future_result[c].id = c

\* two execute_tool calls were outstanding at once and the later one was
\* answered first: it has returned with its own response while the earlier
\* one still waits
C2_Witness ==
  \E c, d \in Ids :
    /\ c < d /\ kind[c] = "tool" /\ kind[d] = "tool"
    /\ cpc[d] = "returned" /\ future_result[d].id = d
    /\ cpc[c] = "waiting" /\ future[c] = "pending"

\* C3: a second response with the id of an already answered request is a
\* no-op, also while the waiting caller has not yet resumed: the message
\* loop never stops on such a frame.
C3_DuplicateIsNoOp ==
  ~(/\ last.op = "crashed"
    /\ last.id \in Ids
    /\ future[last.id] = "done")

\* C4: an invocation that ended by timeout has released its pending slot,
\* and a response for its id handled after that is discarded: no error, no
\* slot resolved, the client stays connected and the message loop running.
TimedOut(c) == cpc[c] = "raised" /\ cerr[c] = "Timeout"

C4_LateResponseDiscarded ==
  /\ [](\A c \in Ids : TimedOut(c) => c \notin response_handlers)
  /\ [][\A c \in Ids :
          (TimedOut(c) /\ HandleFrame /\ Head(inbox).id = c)
            => /\ last'.op = "discarded"
               /\ UNCHANGED <<connected, handle_messages, response_handlers,
                              future, future_result>>]_vars

\* a response for a timed-out id was handled after the slot's release; the
\* client is still connected and the loop still runs
C4_Witness ==
  \E c \in Ids :
    /\ TimedOut(c)
    /\ last = [op |-> "discarded", id |-> c]
    /\ connected /\ handle_messages = "running"

\* -------------------------------------------- claims, multi-server client

Ended(k) == inv[k].pc \in {"returned", "raised"}

C6_UnknownToolFailsFast ==
  \A k \in Invocations :
    inv[k].last = "ToolNotFound"
      => /\ inv[k].pc = "raised"
         /\ inv[k].attempt = 1
         /\ \A a \in 1..StopAfterAttempt : <<k, a>> \notin msent

\* C7: a request the server answered with an application-level failure is
\* surfaced to the caller at once; no retry is scheduled for it.
C7_NoRetryOnToolFailure ==
  \A k \in Invocations :
    inv[k].last = "ToolInvocationFailed" => inv[k].pc = "raised"

\* C8: a failure on one configured URL never raises out of connect().
C8_ConnectNeverRaises == conn.pc # "raised"

C10_LossLeadsToReconnect ==
  (disc.pc = "idle" /\ disc.calls = 0)
    => \A h \in H :
         (sock[h] \in Closures /\ listen[h] \notin {"none", "running", "crashed"})
           => listen[h] \in {"reconnecting", "reconnected", "failed"}

\* C11: in _reconnect, after N consecutive connection failures the sleep that
\* precedes attempt N+1 lasts at least min(2^(N-1), cap) seconds, whatever
\* the cap; this holds for the _listen task's reconnection and for the one
\* invoke_tool starts.
C11_BackoffAtLeastExponential ==
  \A cap \in 1..(2 ^ MaxAttempts) :
    /\ \A h \in H :
         ratt[h] >= 1
           => wait[h] >= (IF 2 ^ (ratt[h] - 1) < cap THEN 2 ^ (ratt[h] - 1) ELSE cap)
    /\ \A k \in Invocations :
         inv[k].ratt >= 1
           => inv[k].wait >= (IF 2 ^ (inv[k].ratt - 1) < cap
                              THEN 2 ^ (inv[k].ratt - 1) ELSE cap)

\* a _listen task's fourth attempt, made after three failures and a sleep of
\* four seconds, has reconnected
C11_Witness ==
  \E h \in H : listen[h] = "reconnected" /\ ratt[h] = 3 /\ wait[h] = 4

\* C12: with servers A and B connected, once the loss of A's connection has
\* been detected (A's _listen task is in _reconnect or has given up), A's
\* tool and A's connection entry are gone from the client, and B's tool is
\* still in the catalog when B had announced it.
C12_OutageRemovesLostServer ==
  \A h, g \in H :
    ( /\ surl[h] = "ws://a" /\ listen[h] \in {"reconnecting", "failed"}
      /\ websocket_connections["ws://a"] \in {0, h}
      /\ surl[g] = "ws://b" /\ sock[g] = "open" /\ listen[g] = "running"
      /\ websocket_connections["ws://b"] = g )
    => /\ tools[ToolOf("ws://a")] = "none"
       /\ websocket_connections["ws://a"] = 0

\* C13: once connect() has returned with connections to server A (exposing
\* get_quote) and server B (exposing get_news), the catalog eventually maps
\* get_quote to A and get_news to B, unless a connection is lost first.
C13_CatalogMerged ==
  ( /\ conn.pc = "returned"
    /\ websocket_connections["ws://a"] # 0
    /\ websocket_connections["ws://b"] # 0 )
  ~> ( \/ tools["get_quote"] = "ws://a" /\ tools["get_news"] = "ws://b"
       \/ \E h \in H : sock[h] \in Closures )

\* ------------------------------------------------------ claims, the server

\* C14: an invoke of a tool id that is not in the registry is answered with a
\* failure result carrying success false, the error "Tool not found: <id>"
\* and the id of the request; the connection is not closed by it.
C14_ToolNotFoundIsFailureResult ==
  ( /\ exchange.msg.type = "invoke" /\ exchange.raised = "none"
    /\ (exchange.msg.tool_id \notin SToolIds \/ stools[exchange.msg.tool_id] = NoEntry) )
  => /\ exchange.resp.success = "false"
     /\ exchange.resp.error = <<"Tool not found: ", exchange.msg.tool_id>>
     /\ exchange.resp.id = exchange.msg.id
     /\ handle_connection[exchange.conn] # "crashed"

\* C15: an invoke whose handler raises ValueError("bad arg") is answered with
\* success false and the error "Parameter error: bad arg".
C15_ValueErrorIsParameterError ==
  ( /\ exchange.msg.type = "invoke" /\ exchange.raised = "none"
    /\ exchange.msg.tool_id \in SToolIds
    /\ stools[exchange.msg.tool_id].handler = "ValueError" )
  => /\ exchange.resp.success = "false"
     /\ exchange.resp.error = <<"Parameter error: ", HandlerMessage>>

Raising == {"TypeError", "ValueError", "RuntimeError"}

\* C16: whatever exception the handler of an invoked tool raises, handling
\* the message on an open connection sends a failure result with the id of
\* the request, and leaves the connection open, its loop running and the
\* client in the clients map, so that the next message is handled too.
C16_HandlerErrorIsolated ==
  [][\A c \in Conns :
       ( /\ HandleMessage(c)
         /\ transport[c] = "open"
         /\ Head(sinbox[c]).type = "invoke"
         /\ Head(sinbox[c]).tool_id \in SToolIds
         /\ stools[Head(sinbox[c]).tool_id].handler \in Raising )
       => /\ exchange'.resp.type = "invoke_response"
          /\ exchange'.resp.success = "false"
          /\ exchange'.resp.id = Head(sinbox[c]).id
          /\ exchange'.raised = "none"
          /\ handle_connection'[c] = "running"
          /\ c \in clients'
          /\ transport'[c] = "open"]_vars

\* a second invoke on the same connection was answered after the first one's
\* handler had raised
C16_Witness ==
  /\ stools["get_quote"].handler \in Raising
  /\ exchange.msg.type = "invoke" /\ exchange.msg.tool_id = "get_quote"
  /\ exchange.msg.id = 2
  /\ exchange.resp.success = "false"
  /\ exchange.prev = [conn |-> exchange.conn, success |-> "false"]
  /\ exchange.conn \in clients

MalformedPayload(p) ==
  \/ p.kind \in {"not_json", "non_object"}
  \/ p.kind = "object" /\ p.type \in {"absent", "unknown"}

\* C17: every malformed payload (no JSON, JSON that is no object, an object
\* with a missing or unknown type) that reaches the server on an open
\* connection is answered with an error frame, and the connection's loop
\* keeps running.
C17_MalformedAnsweredWithError ==
  (MalformedPayload(exchange.msg) /\ exchange.raised # "ConnectionClosed")
  => /\ exchange.raised = "none"
     /\ exchange.resp.type = "error"
     /\ handle_connection[exchange.conn] # "crashed"

\* C18: the clients map holds exactly the accepted connections whose
\* handle_connection task has not ended: the entry appears when the
\* connection is accepted and is gone once the connection has ended, by a
\* close or by an error.
C18_ClientsAreLiveConnections ==
  \A c \in Conns :
    /\ (c \in clients) = (handle_connection[c] = "running")
    /\ transport[c] = "open" => c \in clients
    /\ handle_connection[c] \in {"ended", "crashed"} => transport[c] \in Closures

\* one connection has ended by an error and one by a close, both entries
\* are gone
C18_Witness ==
  \E c, d \in Conns :
    /\ handle_connection[c] = "crashed" /\ handle_connection[d] = "ended"
    /\ clients = {}

\* ---------------------------------------------------- claims, the registry

\* C19: a register_tool call never fails, also on an id that is registered
\* already: after it the registry holds under that id the metadata and the
\* handler just given (defaults where a key is missing), and the entries of
\* the other ids are unchanged.
C19_LastRegistrationWins ==
  [][nreg' = nreg + 1 =>
       LET id == lastreg'.id
           cfg == lastreg'.cfg
           e == stools'[id] IN
         /\ e.id = id
         /\ e.name = (IF cfg.name = "absent" THEN id ELSE cfg.name)
         /\ e.parameters = (IF cfg.parameters = "absent" THEN "{}" ELSE cfg.parameters)
         /\ e.category = (IF cfg.category = "absent" THEN "general" ELSE cfg.category)
         /\ e.handler = (IF cfg.handler = "absent" THEN "None" ELSE cfg.handler)
         /\ \A j \in SToolIds \ {id} : stools'[j] = stools[j]]_vars

\* get_quote was registered twice and nothing else;
\* the registry holds the second registration
C19_Witness ==
  /\ nreg = 2 /\ lastreg.id = "get_quote"
  /\ stools["get_news"] = NoEntry
  /\ lastreg.cfg.handler = "ValueError"
  /\ stools["get_quote"].handler = "ValueError"

\* the entry of tool t as a listing shows it
Shown(t) ==
  [id |-> t, name |-> stools[t].name, category |-> stools[t].category,
   parameters |-> stools[t].parameters]

C21_OneReconnectCycle ==
  /\ [](\A k \in Invocations : inv[k].cycles <= 1)
  /\ [][\A k \in Invocations :
          ( /\ inv[k].pc = "reconnect" /\ inv'[k].pc # "reconnect"
            /\ websocket_connections' = websocket_connections )
          => inv'[k].pc = "raised" /\ inv'[k].last = "ConnectionClosed"]_vars

\* C22: the response to the request of a waiting invoke_tool call is never
\* taken off the socket by the _listen task.
C22_ResponseNotConsumedByListen ==
  [][\A h \in H :
       ListenFrame(h) =>
         LET f == Head(minbox[h]) IN
           ~( /\ f.type = "response"
              /\ inv[f.k].pc = "recv"
              /\ inv[f.k].attempt = f.a )]_vars

\* C25: once disconnect() has returned, no step other than one of connect()
\* puts an entry into the empty websocket_connections: no _listen task
\* reconnects.
C25_StaysEmptyAfterDisconnect ==
  [][( /\ disc.pc = "done" /\ disc'.pc = "done"
       /\ conn' = conn
       /\ websocket_connections = NoConnections )
     => websocket_connections' = NoConnections]_vars

\* C26: for each server URL at most one websocket is open, and at most one
\* _reconnect is in progress: never one run by the _listen task and one run
\* by an invoke_tool call for the same server.
C26_OneConnectionPerServer ==
  /\ \A g, h \in H : (g # h /\ sock[g] = "open" /\ sock[h] = "open") => surl[g] # surl[h]
  /\ \A h \in H, k \in Invocations :
       ~( /\ listen[h] = "reconnecting"
          /\ inv[k].pc = "reconnect"
          /\ tools[inv[k].tool] = surl[h] )

\* C23: once invoke_tool has written its request for a catalogued tool to an
\* open connection, the server's reply is matched to the call and the call
\* eventually returns the handler's result.
C23_InvocationReturns ==
  \A k \in Invocations :
    (<<k, 1>> \in msent) ~> (inv[k].pc = "returned")

\* ------------------------------------- claims, the protocol client (continued)

\* C24: the tool_list_request of connect() is answered by the server, the
\* answer resolves the pending request, and connect() returns with the
\* catalog equal to the server's tools, unless the connection is closed.
C24_HandshakeCompletes ==
  \A c \in Ids :
    (kind[c] = "list" /\ cpc[c] = "waiting")
      ~> \/ cpc[c] = "returned" /\ ptools = ServerTools
         \/ websocket # "open"

\* C27: connected is true only while the _handle_messages task runs: once
\* the task has stopped, after a close of either kind, connected is false.
C27_ConnectedMeansLive ==
  handle_messages \in {"ended", "crashed"} => ~connected
\* -------------------------------------------------- claims, the rate limiter

\* the admitted calls of key in the window of window_seconds that starts at t
AdmittedIn(key, t) ==
  {i \in DOMAIN admitted[key] :
     t <= admitted[key][i] /\ admitted[key][i] <= t + window_seconds}

\* C28: for every key at most max_requests calls are admitted in any window
\* of window_seconds; and a denied is_allowed call or a get_remaining call
\* changes, for no later time, whether a request made then is admitted.
C28_WindowAndNoDelay ==
  /\ [](\A key \in Keys, t \in 0..MaxTime :
          Cardinality(AdmittedIn(key, t)) <= max_requests)
  /\ [][\A key \in Keys :
          ( \/ IsAllowed(key) /\ ~call'.allowed
            \/ GetRemaining(key) )
          => \A t \in now..(MaxTime + window_seconds + 1) :
               Allowed(requests'[key], t) = Allowed(requests[key], t)]_vars

\* a call is denied with the limit reached in the current window, after an
\* earlier window has passed
C28_Witness ==
  /\ call.op = "is_allowed" /\ ~call.allowed /\ call.wait > 0
  /\ Len(admitted[call.key]) > max_requests
  /\ Cardinality(AdmittedIn(call.key, now - window_seconds)) = max_requests

\* the number of further requests the limiter admits at time t
RECURSIVE Further(_, _)
Further(q, t) ==
  IF Allowed(q, t) THEN 1 + Further(AfterIsAllowed(q, t), t) ELSE 0

\* C29: the requests_remaining reported for an admitted request equals the
\* number of further requests the limiter would admit right afterwards, and
\* is never negative.
C29_RemainingIsExact ==
  [][\A outcome \in {"completed", "failed"} :
       (ExecuteAgent(outcome) /\ rate_limit_info'.status = outcome)
       => /\ rate_limit_info'.requests_remaining
               = Further(requests'["global"], now')
          /\ rate_limit_info'.requests_remaining >= 0]_vars

\* ---------------------------------------------------------- claims, the agent

\* C30: after cleanup() has returned, no MCPClient that _connect_mcp_servers
\* connected is still connected.
C30_CleanupClosesAll ==
  agent.pc = "cleaned" => \A i \in Servers : mcp_clients[i] # "connected"
====
